---- MODULE Spec2Model ----
(***************************************************************************)
(* Piecewise modular cipher of Assignment-2.1.py: encrypt_character,       *)
(* decrypt_character_with_ambiguity, the file-level encrypt / decrypt /    *)
(* verify pipeline of main, and the reversibility advisory.                *)
(*                                                                         *)
(* A character is its code point (ord); a text is a sequence of code       *)
(* points.  chr and ord are inverse bijections between one-character       *)
(* strings and code points, so a character and its code point are one      *)
(* value here; all arithmetic the code does on ord(ch) is done as written. *)
(* TLC's % agrees with Python's % for a positive modulus (result 0..25).   *)
(***************************************************************************)
EXTENDS Integers, Sequences, FiniteSets, TLC

VARIABLES
    shift1,               \* main: s1
    shift2,               \* main: s2
    pc,                   \* position in main / in the per-character harness
    char,                 \* the character handed to the per-character functions
    enc,                  \* <<r>>: r returned by encrypt_character, <<>> before
    dec_in,               \* <<c>>: c handed to decrypt_character_with_ambiguity
    dec,                  \* <<[c, amb]>>: what it returned, <<>> before
    raw_text,             \* content of raw_text.txt
    encrypted_text,       \* content of encrypted_text.txt
    decrypted_text,       \* content of decrypted_text.txt
    ambiguous_positions,  \* decrypt_file's return value
    advice,               \* what check_reversibility_for_text reported
    verified              \* <<b>>: b returned by verify_files, <<>> before

vars == <<shift1, shift2, pc, char, enc, dec_in, dec, raw_text, encrypted_text,
          decrypted_text, ambiguous_positions, advice, verified>>

(***************************************************************************)
(* Bounds.                                                                 *)
(***************************************************************************)
MaxShift == 13
MaxFileShift == 3
MaxLen == 2
MaxAdviseShift == 26

(***************************************************************************)
(* Program constants and character classes.                                *)
(***************************************************************************)
LOW_A == 97
UP_A == 65

Lower == 97..122
Upper == 65..90
Letters == Lower \cup Upper
LowerFirst == 97..109
LowerSecond == 110..122
UpperFirst == 65..77
UpperSecond == 78..90

\* ' ', '0', '@', '[', '`', '{' and the non-ASCII letter e-acute
OtherChars == {32, 48, 64, 91, 96, 123, 233}
Chars == Letters \cup OtherChars

\* str.isalpha on the characters of Chars: the ASCII letters and e-acute
isalpha(ch) == ch \in Letters \/ ch = 233

(***************************************************************************)
(* encrypt_character                                                       *)
(***************************************************************************)
\* mutant: the shifted index is not reduced mod 26
encrypt_character_nomod(ch, s1, s2) ==
    IF 97 <= ch /\ ch <= 122
    THEN IF ch <= 109
         THEN (ch - LOW_A + s1 * s2) + LOW_A
         ELSE (ch - LOW_A + (-(s1 + s2))) + LOW_A
    ELSE IF 65 <= ch /\ ch <= 90
    THEN IF ch <= 77
         THEN (ch - UP_A + (-s1)) + UP_A
         ELSE (ch - UP_A + (s2 * s2)) + UP_A
    ELSE ch

\* mutant: the test that ch is a letter is missing
encrypt_character_nocase(ch, s1, s2) ==
    IF ch <= 109
    THEN ((ch - LOW_A + s1 * s2) % 26) + LOW_A
    ELSE ((ch - LOW_A + (-(s1 + s2))) % 26) + LOW_A

encrypt_character(ch, s1, s2) ==
    IF 97 <= ch /\ ch <= 122                              \* 'a' <= ch <= 'z'
    THEN IF ch <= 109                                     \* ch <= 'm'
         THEN ((ch - LOW_A + s1 * s2) % 26) + LOW_A
         ELSE ((ch - LOW_A + (-(s1 + s2))) % 26) + LOW_A
    ELSE IF 65 <= ch /\ ch <= 90                          \* 'A' <= ch <= 'Z'
    THEN IF ch <= 77                                      \* ch <= 'M'
         THEN ((ch - UP_A + (-s1)) % 26) + UP_A
         ELSE ((ch - UP_A + (s2 * s2)) % 26) + UP_A
    ELSE ch

(***************************************************************************)
(* decrypt_character_with_ambiguity: the locals c1, c2, ok1, ok2 of the    *)
(* lowercase and of the uppercase branch, then the decision table, which   *)
(* is the same in both branches.                                           *)
(***************************************************************************)
\* mutant: the first-half rule is applied again instead of inverted
c1_wrongsign(ch, s1, s2) ==
    IF 97 <= ch /\ ch <= 122
    THEN (((ch - LOW_A) + (s1 * s2)) % 26) + LOW_A
    ELSE (((ch - UP_A) - s1) % 26) + UP_A

c1(ch, s1, s2) ==
    IF 97 <= ch /\ ch <= 122
    THEN (((ch - LOW_A) - (s1 * s2)) % 26) + LOW_A
    ELSE (((ch - UP_A) + s1) % 26) + UP_A

\* mutant: the second-half rule is applied again instead of inverted
c2_wrongsign(ch, s1, s2) ==
    IF 97 <= ch /\ ch <= 122
    THEN (((ch - LOW_A) - (s1 + s2)) % 26) + LOW_A
    ELSE (((ch - UP_A) + (s2 * s2)) % 26) + UP_A

c2(ch, s1, s2) ==
    IF 97 <= ch /\ ch <= 122
    THEN (((ch - LOW_A) + (s1 + s2)) % 26) + LOW_A
    ELSE (((ch - UP_A) - (s2 * s2)) % 26) + UP_A

ok1(ch, s1, s2) ==
    IF 97 <= ch /\ ch <= 122
    THEN c1(ch, s1, s2) <= 109 /\ encrypt_character(c1(ch, s1, s2), s1, s2) = ch
    ELSE c1(ch, s1, s2) <= 77 /\ encrypt_character(c1(ch, s1, s2), s1, s2) = ch

\* mutant: candidate 2 is not required to lie in the second half
ok2_nohalf(ch, s1, s2) ==
    encrypt_character(c2(ch, s1, s2), s1, s2) = ch

ok2(ch, s1, s2) ==
    IF 97 <= ch /\ ch <= 122
    THEN c2(ch, s1, s2) >= 110 /\ encrypt_character(c2(ch, s1, s2), s1, s2) = ch
    ELSE c2(ch, s1, s2) >= 78 /\ encrypt_character(c2(ch, s1, s2), s1, s2) = ch

\* mutant: the tie-break returns candidate 2
decrypt_character_c2wins(ch, s1, s2) ==
    IF (97 <= ch /\ ch <= 122) \/ (65 <= ch /\ ch <= 90)
    THEN IF ok1(ch, s1, s2) /\ ~ok2(ch, s1, s2)
         THEN [c |-> c1(ch, s1, s2), amb |-> FALSE]
         ELSE IF ok2(ch, s1, s2) /\ ~ok1(ch, s1, s2)
         THEN [c |-> c2(ch, s1, s2), amb |-> FALSE]
         ELSE IF ok1(ch, s1, s2) /\ ok2(ch, s1, s2)
         THEN [c |-> c2(ch, s1, s2), amb |-> TRUE]
         ELSE [c |-> ch, amb |-> TRUE]
    ELSE [c |-> ch, amb |-> FALSE]

\* mutant: the tie-break does not raise the flag
decrypt_character_unflagged(ch, s1, s2) ==
    IF (97 <= ch /\ ch <= 122) \/ (65 <= ch /\ ch <= 90)
    THEN IF ok1(ch, s1, s2)
         THEN [c |-> c1(ch, s1, s2), amb |-> FALSE]
         ELSE IF ok2(ch, s1, s2)
         THEN [c |-> c2(ch, s1, s2), amb |-> FALSE]
         ELSE [c |-> ch, amb |-> TRUE]
    ELSE [c |-> ch, amb |-> FALSE]

decrypt_character_with_ambiguity(ch, s1, s2) ==
    IF (97 <= ch /\ ch <= 122) \/ (65 <= ch /\ ch <= 90)
    THEN IF ok1(ch, s1, s2) /\ ~ok2(ch, s1, s2)
         THEN [c |-> c1(ch, s1, s2), amb |-> FALSE]
         ELSE IF ok2(ch, s1, s2) /\ ~ok1(ch, s1, s2)
         THEN [c |-> c2(ch, s1, s2), amb |-> FALSE]
         ELSE IF ok1(ch, s1, s2) /\ ok2(ch, s1, s2)
         THEN [c |-> c1(ch, s1, s2), amb |-> TRUE]
         ELSE [c |-> ch, amb |-> TRUE]
    ELSE [c |-> ch, amb |-> FALSE]

(***************************************************************************)
(* encrypt_file, decrypt_file, verify_files, check_reversibility_for_text  *)
(***************************************************************************)
\* ''.join(encrypt_character(ch, s1, s2) for ch in text)
encrypt_text(text, s1, s2) ==
    [i \in 1..Len(text) |-> encrypt_character(text[i], s1, s2)]

\* mutant: positions are recorded 1-based
RECURSIVE decrypt_loop_onebased(_, _, _, _, _, _)
decrypt_loop_onebased(cipher, i, out_chars, positions, s1, s2) ==
    IF i >= Len(cipher)
    THEN [out |-> out_chars, pos |-> positions]
    ELSE LET ch == cipher[i + 1]
             r == decrypt_character_with_ambiguity(ch, s1, s2)
         IN decrypt_loop_onebased(cipher, i + 1, Append(out_chars, r.c),
                                  IF r.amb /\ isalpha(ch)
                                  THEN Append(positions, i + 1)
                                  ELSE positions,
                                  s1, s2)

\* the for loop of decrypt_file from index i (0-based) on: out_chars and
\* ambiguous_positions as they stand when the loop ends
RECURSIVE decrypt_loop(_, _, _, _, _, _)
decrypt_loop(cipher, i, out_chars, positions, s1, s2) ==
    IF i >= Len(cipher)
    THEN [out |-> out_chars, pos |-> positions]
    ELSE LET ch == cipher[i + 1]
             r == decrypt_character_with_ambiguity(ch, s1, s2)
         IN decrypt_loop(cipher, i + 1, Append(out_chars, r.c),
                         IF r.amb /\ isalpha(ch)
                         THEN Append(positions, i)
                         ELSE positions,
                         s1, s2)

decrypt_text(cipher, s1, s2) == decrypt_loop(cipher, 0, <<>>, <<>>, s1, s2)

has_lower(text) == \E i \in 1..Len(text) : 97 <= text[i] /\ text[i] <= 122
has_upper(text) == \E i \in 1..Len(text) : 65 <= text[i] /\ text[i] <= 90

\* mutant: the sum of the shifts enters with the wrong sign
lower_cond_wrongsign(s1, s2) == (s1 * s2 - (s1 + s2)) % 26 = 0
\* mutant: the square enters with the wrong sign
upper_cond_wrongsign(s1, s2) == (s1 - (s2 * s2)) % 26 = 0

lower_cond(s1, s2) == (s1 * s2 + s1 + s2) % 26 = 0
upper_cond(s1, s2) == (s1 + (s2 * s2)) % 26 = 0

\* the branch check_reversibility_for_text takes and the condition it prints
check_reversibility_for_text(text, s1, s2) ==
    IF has_lower(text) /\ ~has_upper(text)
    THEN [kind |-> "lowercase-only", cond |-> <<lower_cond(s1, s2)>>]
    ELSE IF has_upper(text) /\ ~has_lower(text)
    THEN [kind |-> "uppercase-only", cond |-> <<upper_cond(s1, s2)>>]
    ELSE IF has_lower(text) /\ has_upper(text)
    THEN [kind |-> "mixed-case", cond |-> <<>>]
    ELSE [kind |-> "no-letters", cond |-> <<>>]

(***************************************************************************)
(* Inputs.                                                                 *)
(***************************************************************************)
Shifts == (-MaxShift)..MaxShift
FileShifts == (-MaxFileShift)..MaxFileShift
AdviseShifts == (-MaxAdviseShift)..MaxAdviseShift

\* 'a', 'm', 'n', 'z', 'A', 'M', 'N', 'Z', ' ' and e-acute
FileChars == {97, 109, 110, 122, 65, 77, 78, 90, 32, 233}

Texts == UNION {[1..n -> FileChars] : n \in 0..MaxLen}

\* one text of each composition the advisory tells apart
AdviseTexts == {<<>>, <<32, 48>>, <<97>>, <<122, 32, 104>>, <<90>>,
                <<72, 33>>, <<72, 101>>, <<110, 32, 65>>}

NoAdvice == [kind |-> "none", cond |-> <<>>]

(***************************************************************************)
(* The per-character functions, each applied to one input.                 *)
(***************************************************************************)
InitChar ==
    /\ shift1 \in Shifts
    /\ shift2 \in Shifts
    /\ char \in Chars
    /\ pc = "char"
    /\ enc = <<>>
    /\ dec_in = <<>>
    /\ dec = <<>>
    /\ raw_text = <<>>
    /\ encrypted_text = <<>>
    /\ decrypted_text = <<>>
    /\ ambiguous_positions = <<>>
    /\ advice = NoAdvice
    /\ verified = <<>>

\* encrypt_character(char, s1, s2)
EncryptChar ==
    /\ pc = "char"
    /\ enc' = <<encrypt_character(char, shift1, shift2)>>
    /\ pc' = "char_encrypted"
    /\ UNCHANGED <<shift1, shift2, char, dec_in, dec, raw_text, encrypted_text,
                   decrypted_text, ambiguous_positions, advice, verified>>

\* decrypt_character_with_ambiguity(char, s1, s2): char taken as a cipher
\* character
DecryptChar ==
    /\ pc = "char"
    /\ dec_in' = <<char>>
    /\ dec' = <<decrypt_character_with_ambiguity(char, shift1, shift2)>>
    /\ pc' = "char_decrypted"
    /\ UNCHANGED <<shift1, shift2, char, enc, raw_text, encrypted_text,
                   decrypted_text, ambiguous_positions, advice, verified>>

\* decrypt_character_with_ambiguity(encrypt_character(char, s1, s2), s1, s2)
DecryptEncryptedChar ==
    /\ pc = "char_encrypted"
    /\ dec_in' = enc
    /\ dec' = <<decrypt_character_with_ambiguity(enc[1], shift1, shift2)>>
    /\ pc' = "char_round_trip"
    /\ UNCHANGED <<shift1, shift2, char, enc, raw_text, encrypted_text,
                   decrypted_text, ambiguous_positions, advice, verified>>

NextChar == EncryptChar \/ DecryptChar \/ DecryptEncryptedChar

SpecChar == InitChar /\ [][NextChar]_vars

(***************************************************************************)
(* main: advisory, encrypt_file, decrypt_file, verify_files.               *)
(***************************************************************************)
InitFiles(shifts, texts) ==
    /\ shift1 \in shifts
    /\ shift2 \in shifts
    /\ raw_text \in texts
    /\ pc = "start"
    /\ char = 32
    /\ enc = <<>>
    /\ dec_in = <<>>
    /\ dec = <<>>
    /\ encrypted_text = <<>>
    /\ decrypted_text = <<>>
    /\ ambiguous_positions = <<>>
    /\ advice = NoAdvice
    /\ verified = <<>>

Init == InitFiles(FileShifts, Texts)

CheckReversibility ==
    /\ pc = "start"
    /\ advice' = check_reversibility_for_text(raw_text, shift1, shift2)
    /\ pc' = "advised"
    /\ UNCHANGED <<shift1, shift2, char, enc, dec_in, dec, raw_text,
                   encrypted_text, decrypted_text, ambiguous_positions, verified>>

EncryptFile ==
    /\ pc = "advised"
    /\ encrypted_text' = encrypt_text(raw_text, shift1, shift2)
    /\ pc' = "encrypted"
    /\ UNCHANGED <<shift1, shift2, char, enc, dec_in, dec, raw_text,
                   decrypted_text, ambiguous_positions, advice, verified>>

DecryptFile ==
    /\ pc = "encrypted"
    /\ LET r == decrypt_text(encrypted_text, shift1, shift2)
       IN /\ decrypted_text' = r.out
          /\ ambiguous_positions' = r.pos
    /\ pc' = "decrypted"
    /\ UNCHANGED <<shift1, shift2, char, enc, dec_in, dec, raw_text,
                   encrypted_text, advice, verified>>

VerifyFiles ==
    /\ pc = "decrypted"
    /\ verified' = <<raw_text = decrypted_text>>
    /\ pc' = "verified"
    /\ UNCHANGED <<shift1, shift2, char, enc, dec_in, dec, raw_text,
                   encrypted_text, decrypted_text, ambiguous_positions, advice>>

Next == CheckReversibility \/ EncryptFile \/ DecryptFile \/ VerifyFiles

Spec == Init /\ [][Next]_vars

(***************************************************************************)
(* check_reversibility_for_text alone, over every residue of both shifts.  *)
(***************************************************************************)
InitAdvise == InitFiles(AdviseShifts, AdviseTexts)

NextAdvise == CheckReversibility

SpecAdvise == InitAdvise /\ [][NextAdvise]_vars

(***************************************************************************)
(* decrypt_file alone, on any content of encrypted_text.txt.               *)
(***************************************************************************)
InitDecrypt ==
    /\ shift1 \in FileShifts
    /\ shift2 \in FileShifts
    /\ encrypted_text \in Texts
    /\ pc = "encrypted"
    /\ char = 32
    /\ enc = <<>>
    /\ dec_in = <<>>
    /\ dec = <<>>
    /\ raw_text = <<>>
    /\ decrypted_text = <<>>
    /\ ambiguous_positions = <<>>
    /\ advice = NoAdvice
    /\ verified = <<>>

NextDecrypt == DecryptFile

SpecDecrypt == InitDecrypt /\ [][NextDecrypt]_vars


(***************************************************************************)
(* Vocabulary of the properties.                                           *)
(***************************************************************************)
FirstHalfOf(ch) == IF ch \in Lower THEN LowerFirst ELSE UpperFirst
SecondHalfOf(ch) == IF ch \in Lower THEN LowerSecond ELSE UpperSecond
OtherHalfOf(ch) ==
    IF ch \in FirstHalfOf(ch) THEN SecondHalfOf(ch) ELSE FirstHalfOf(ch)
CaseOf(ch) == IF ch \in Lower THEN Lower ELSE Upper

\* some letter of ch's case encrypts to ch
HasPreimage(ch, s1, s2) ==
    \E x \in CaseOf(ch) : encrypt_character(x, s1, s2) = ch

\* one letter of each half of ch's case encrypts to ch
HasCollision(ch, s1, s2) ==
    \E x \in FirstHalfOf(ch) : \E y \in SecondHalfOf(ch) :
        /\ x # y
        /\ encrypt_character(x, s1, s2) = ch
        /\ encrypt_character(y, s1, s2) = ch

RoundTrip(ch, s1, s2) ==
    decrypt_character_with_ambiguity(encrypt_character(ch, s1, s2), s1, s2)

Decoded == dec # <<>>
Encoded == enc # <<>>
NoOp(s1, s2) == s1 % 26 = 0 /\ s2 % 26 = 0
PositionSet == {ambiguous_positions[k] : k \in 1..Len(ambiguous_positions)}

C2_HalfConsistentRoundTrip ==
    (/\ pc = "char_round_trip"
     /\ char \in Letters
     /\ \A y \in OtherHalfOf(char) :
            encrypt_character(y, shift1, shift2) # enc[1])
        => dec[1] = [c |-> char, amb |-> FALSE]

C2_Witness ==
    /\ pc = "char_round_trip"
    /\ char \in UpperSecond
    /\ enc[1] # char
    /\ ~lower_cond(shift1, shift2)
    /\ ~upper_cond(shift1, shift2)
    /\ \A y \in OtherHalfOf(char) :
           encrypt_character(y, shift1, shift2) # enc[1]
    /\ dec[1] = [c |-> char, amb |-> FALSE]

(***************************************************************************)
(* C3  Lowercase reversibility condition.                                  *)
(***************************************************************************)
\* C3: the condition check_reversibility_for_text reports for lowercase-only
\* text holds exactly when the round trip returns c for every one of the 26
\* lowercase letters c.
C3_LowercaseReversibility ==
    (pc = "advised" /\ advice.kind = "lowercase-only")
        => (advice.cond[1] <=>
               \A x \in Lower : RoundTrip(x, shift1, shift2).c = x)

C3_Witness ==
    /\ pc = "advised"
    /\ advice.kind = "lowercase-only"
    /\ advice.cond[1]
    /\ ~NoOp(shift1, shift2)
    /\ \A x \in Lower : RoundTrip(x, shift1, shift2).c = x

(***************************************************************************)
(* C4  Mixed-case incompatibility.                                         *)
(***************************************************************************)
\* C4: a shift pair that satisfies the lowercase and the uppercase
\* reversibility condition at once is 0 mod 26 in both shifts, and only
\* such a pair round-trips every lowercase and every uppercase letter.
C4_MixedCaseIncompatibility ==
    (pc = "advised" /\ advice.kind = "mixed-case")
        => /\ (lower_cond(shift1, shift2) /\ upper_cond(shift1, shift2))
                  => NoOp(shift1, shift2)
           /\ (\A x \in Letters : RoundTrip(x, shift1, shift2).c = x)
                  => NoOp(shift1, shift2)

C4_Witness ==
    /\ pc = "advised"
    /\ advice.kind = "mixed-case"
    /\ shift1 # 0
    /\ shift2 # 0
    /\ lower_cond(shift1, shift2)
    /\ upper_cond(shift1, shift2)
    /\ \A x \in Letters : RoundTrip(x, shift1, shift2).c = x

(***************************************************************************)
(* C5  Forward transform rule table.                                       *)
(***************************************************************************)
\* r is the letter of the alphabet starting at base whose index is
\* congruent to i + shift mod 26
AtIndex(r, base, i, shift) ==
    /\ base <= r
    /\ r <= base + 25
    /\ ((r - base) - (i + shift)) % 26 = 0

\* C5: encrypt_character returns the same-case letter at index
\* (i + s1*s2) mod 26 for a-m, (i - (s1+s2)) mod 26 for n-z, (i - s1) mod 26
\* for A-M and (i + s2*s2) mod 26 for N-Z; with s1=3, s2=4 it maps 'H' to
\* 'E', 'e' to 'q' and 'l' to 'x'.
C5_ForwardRuleTable ==
    Encoded =>
        /\ char \in LowerFirst =>
               AtIndex(enc[1], 97, char - 97, shift1 * shift2)
        /\ char \in LowerSecond =>
               AtIndex(enc[1], 97, char - 97, -(shift1 + shift2))
        /\ char \in UpperFirst =>
               AtIndex(enc[1], 65, char - 65, -shift1)
        /\ char \in UpperSecond =>
               AtIndex(enc[1], 65, char - 65, shift2 * shift2)
        /\ (shift1 = 3 /\ shift2 = 4 /\ char = 72) => enc[1] = 69
        /\ (shift1 = 3 /\ shift2 = 4 /\ char = 101) => enc[1] = 113
        /\ (shift1 = 3 /\ shift2 = 4 /\ char = 108) => enc[1] = 120

C5_Witness ==
    /\ pc = "char_encrypted"
    /\ shift1 = -13
    /\ shift2 = 12
    /\ char = 122
    /\ enc = <<97>>

(***************************************************************************)
(* C6  Non-alphabetic invariance.                                          *)
(***************************************************************************)
\* C6: for a character outside a-z and A-Z, encrypt_character returns it
\* unchanged and decrypt_character_with_ambiguity returns (it, False).
C6_NonAlphabeticInvariance ==
    /\ (Encoded /\ char \notin Letters) => enc[1] = char
    /\ (Decoded /\ dec_in[1] \notin Letters)
           => dec[1] = [c |-> dec_in[1], amb |-> FALSE]

C6_Witness ==
    /\ pc = "char_round_trip"
    /\ char = 96
    /\ shift1 = 5
    /\ shift2 = -7
    /\ enc = <<96>>
    /\ dec = <<[c |-> 96, amb |-> FALSE]>>

(***************************************************************************)
(* C7  Decode stream.                                                      *)
(***************************************************************************)
\* C7: decrypt_file writes a text as long as the encrypted text whose i-th
\* character is the candidate decrypt_character_with_ambiguity returns for
\* the i-th encrypted character, and returns a strictly ascending list of
\* 0-based positions holding i exactly when position i's flag is true and
\* its encrypted character is alphabetic.
C7_DecodeStream ==
    pc = "decrypted" =>
        /\ Len(decrypted_text) = Len(encrypted_text)
        /\ \A i \in 1..Len(encrypted_text) :
               decrypted_text[i] =
                   decrypt_character_with_ambiguity(
                       encrypted_text[i], shift1, shift2).c
        /\ \A k \in 1..(Len(ambiguous_positions) - 1) :
               ambiguous_positions[k] < ambiguous_positions[k + 1]
        /\ PositionSet \subseteq 0..(Len(encrypted_text) - 1)
        /\ \A i \in 0..(Len(encrypted_text) - 1) :
               (i \in PositionSet) <=>
                   /\ decrypt_character_with_ambiguity(
                          encrypted_text[i + 1], shift1, shift2).amb
                   /\ isalpha(encrypted_text[i + 1])
        /\ \A i \in PositionSet : isalpha(encrypted_text[i + 1])

C7_Witness ==
    /\ pc = "decrypted"
    /\ Len(encrypted_text) = 2
    /\ encrypted_text[1] \notin Letters
    /\ ambiguous_positions = <<1>>
    /\ decrypted_text[2] # encrypted_text[2]

(***************************************************************************)
(* C8  Deterministic tie-break.                                            *)
(***************************************************************************)
\* C8: when both candidates verify, decrypt_character_with_ambiguity returns
\* the first-half candidate c1 flagged ambiguous: a letter of the first half
\* of ch's case that encrypts to ch.
C8_TieBreak ==
    (/\ Decoded
     /\ dec_in[1] \in Letters
     /\ ok1(dec_in[1], shift1, shift2)
     /\ ok2(dec_in[1], shift1, shift2))
        => /\ dec[1] = [c |-> c1(dec_in[1], shift1, shift2), amb |-> TRUE]
           /\ dec[1].c \in FirstHalfOf(dec_in[1])
           /\ encrypt_character(dec[1].c, shift1, shift2) = dec_in[1]

C8_Witness ==
    /\ pc = "char_round_trip"
    /\ char \in LowerSecond
    /\ ok1(dec_in[1], shift1, shift2)
    /\ ok2(dec_in[1], shift1, shift2)
    /\ dec[1].amb
    /\ dec[1].c \in LowerFirst
    /\ dec[1].c # char

C10_Pipeline ==
    /\ pc \in {"decrypted", "verified"} =>
           /\ Len(decrypted_text) = Len(raw_text)
           /\ \A i \in 1..Len(raw_text) :
                  decrypted_text[i] # raw_text[i] => (i - 1) \in PositionSet
           /\ ambiguous_positions = <<>> => decrypted_text = raw_text
    /\ (pc = "verified" /\ ambiguous_positions = <<>>) => verified = <<TRUE>>

C10_Witness ==
    /\ pc = "verified"
    /\ Len(raw_text) = 2
    /\ decrypted_text[1] = raw_text[1]
    /\ decrypted_text[2] # raw_text[2]
    /\ ambiguous_positions = <<0, 1>>
    /\ verified = <<FALSE>>


====
